---- MODULE Spec2Model ----
(***************************************************************************)
(* The model-search page (Home): React state, the two effects that derive  *)
(* the facets and the displayed list, and the handlers that change the     *)
(* filter state.  Strings are sequences of one-character strings, so that  *)
(* split, toLowerCase, startsWith and the default sort order are computed  *)
(* character by character.                                                 *)
(***************************************************************************)
EXTENDS Integers, Sequences, FiniteSets, TLC

VARIABLES
  query,            \* useState("")                       text of the search box
  results,          \* useState<ModelResult[]>([])        raw result list
  filteredResults,  \* useState<ModelResult[]>([])        displayed list
  groupedResults,   \* useState<GroupedModels>({})        own properties, in creation order
  loading,          \* useState(false)
  error,            \* useState<string | null>(null)
  availableTags,    \* useState<string[]>([])
  selectedTags,     \* useState<string[]>([])
  downloadRange,    \* useState<[number, number]>([0, 1000000])
  maxDownloads,     \* useState(1000000)
  sortOption,       \* useState<string>("relevance")
  resultsLimit,     \* useState<number>(40)
  backendUrl,       \* process.env.NEXT_PUBLIC_BACKEND_URL is set
  inflight,         \* fetch calls awaiting their response
  pending,          \* effects whose dependencies changed in the last render
  crashed           \* an effect threw: React unmounted the tree

vars == <<query, results, filteredResults, groupedResults, loading, error,
          availableTags, selectedTags, downloadRange, maxDownloads, sortOption,
          resultsLimit, backendUrl, inflight, pending, crashed>>

-----------------------------------------------------------------------------
(* Strings *)

Min(a, b) == IF a < b THEN a ELSE b
\* (mutant) the second argument, whatever the first
MaxSecond(a, b) == b

Max(a, b) == IF a > b THEN a ELSE b

\* Array.prototype.includes
Includes(seq, x) == \E i \in 1..Len(seq) : seq[i] = x

\* The characters the identifiers, tags and queries of the model are written
\* with, in the order of their UTF-16 code units.
CodeUnitOrder ==
  << " ", "-", ".", "/",
     "0", "1", "2", "3", "4", "5", "6", "7", "8", "9", ":",
     "A", "B", "C", "D", "E", "F", "G", "H", "I", "J", "K", "L", "M",
     "N", "O", "P", "Q", "R", "S", "T", "U", "V", "W", "X", "Y", "Z", "_",
     "a", "b", "c", "d", "e", "f", "g", "h", "i", "j", "k", "l", "m",
     "n", "o", "p", "q", "r", "s", "t", "u", "v", "w", "x", "y", "z" >>

\* String.prototype.charCodeAt, as a rank: only the order of two ranks is used.
CharCode(c) == CHOOSE i \in 1..Len(CodeUnitOrder) : CodeUnitOrder[i] = c

UpperCase ==
  << "A", "B", "C", "D", "E", "F", "G", "H", "I", "J", "K", "L", "M",
     "N", "O", "P", "Q", "R", "S", "T", "U", "V", "W", "X", "Y", "Z" >>

LowerCase ==
  << "a", "b", "c", "d", "e", "f", "g", "h", "i", "j", "k", "l", "m",
     "n", "o", "p", "q", "r", "s", "t", "u", "v", "w", "x", "y", "z" >>

\* String.prototype.toLowerCase, one character at a time.
LowerChar(c) ==
  IF \E i \in 1..Len(UpperCase) : UpperCase[i] = c
  THEN LowerCase[CHOOSE i \in 1..Len(UpperCase) : UpperCase[i] = c]
  ELSE c

toLowerCase(s) == [i \in 1..Len(s) |-> LowerChar(s[i])]

\* String.prototype.startsWith
startsWith(s, prefix) ==
  /\ Len(prefix) <= Len(s)
  /\ SubSeq(s, 1, Len(prefix)) = prefix

\* String.prototype.split with a one-character separator: the pieces between
\* the separators, an empty piece where two separators meet or at either end.
RECURSIVE split(_, _)
split(s, sep) ==
  IF \A i \in 1..Len(s) : s[i] # sep
  THEN <<s>>
  ELSE LET k == CHOOSE i \in 1..Len(s) :
                  s[i] = sep /\ \A j \in 1..(i - 1) : s[j] # sep
       IN  <<SubSeq(s, 1, k - 1)>> \o split(SubSeq(s, k + 1, Len(s)), sep)

\* The relational comparison of two strings (code unit by code unit), which
\* Array.prototype.sort uses when it is given no comparator.
RECURSIVE StringLess(_, _)
StringLess(a, b) ==
  IF Len(a) = 0 THEN Len(b) > 0
  ELSE IF Len(b) = 0 THEN FALSE
  ELSE IF a[1] # b[1] THEN CharCode(a[1]) < CharCode(b[1])
  ELSE StringLess(Tail(a), Tail(b))

-----------------------------------------------------------------------------
(* Items: model_id and every tag are strings; `absent` names the fields a   *)
(* response left out (their value is undefined).                            *)

HasTags(m) == "tags" \notin m.absent
HasDownloads(m) == "downloads" \notin m.absent

-----------------------------------------------------------------------------
(* filterTagForDisplay *)

COMMON_EXCLUDED_TAGS == { <<"t","r","a","n","s","f","o","r","m","e","r","s">> }

EXCLUDED_TAG_PREFIXES ==
  << <<"a","r","x","i","v",":">>,
     <<"b","a","s","e","_","m","o","d","e","l",":">>,
     <<"d","a","t","a","s","e","t",":">>,
     <<"d","i","f","f","u","s","e","r","s",":">>,
     <<"l","i","c","e","n","s","e",":">> >>

MinTagLength == 3

\* (mutant) the tag is compared as it is written
filterTagForDisplayCaseSensitive(tag) ==
  IF Len(tag) = 0 THEN FALSE
  ELSE /\ Len(tag) > MinTagLength
       /\ tag \notin COMMON_EXCLUDED_TAGS
       /\ ~ \E p \in 1..Len(EXCLUDED_TAG_PREFIXES) :
              startsWith(tag, EXCLUDED_TAG_PREFIXES[p])

filterTagForDisplay(tag) ==
  IF Len(tag) = 0 THEN FALSE
  ELSE LET lowerTag == toLowerCase(tag)
       IN  /\ Len(tag) > MinTagLength
           /\ lowerTag \notin COMMON_EXCLUDED_TAGS
           /\ ~ \E p \in 1..Len(EXCLUDED_TAG_PREFIXES) :
                  startsWith(lowerTag, EXCLUDED_TAG_PREFIXES[p])

-----------------------------------------------------------------------------
(* getBaseModelName *)

\* (mutant) the identifier is cut at its first hyphen, wherever it stands
getBaseModelNameWholeId(modelId) == split(modelId, "-")[1]

getBaseModelName(modelId) ==
  LET parts == split(modelId, "/")
      modelName == IF Len(parts) > 1 THEN parts[2] ELSE parts[1]
      baseName == split(modelName, "-")[1]
  IN  IF Len(parts) > 1 THEN parts[1] \o <<"/">> \o baseName ELSE baseName

-----------------------------------------------------------------------------
(* groupModelsByBaseName.  `grouped` is an ordinary object created by {}:   *)
(* a read of grouped[k] finds the own property k or, failing that, the      *)
(* property k of Object.prototype.  The model keeps the own properties in   *)
(* the order of their creation, as [key, models] records.                   *)

\* The property names every ordinary object inherits from Object.prototype;
\* each of them reads as a function or an object, none of which is an array.
ObjectPrototypeKeys ==
  { <<"c","o","n","s","t","r","u","c","t","o","r">>,
    <<"_","_","d","e","f","i","n","e","G","e","t","t","e","r","_","_">>,
    <<"_","_","d","e","f","i","n","e","S","e","t","t","e","r","_","_">>,
    <<"h","a","s","O","w","n","P","r","o","p","e","r","t","y">>,
    <<"_","_","l","o","o","k","u","p","G","e","t","t","e","r","_","_">>,
    <<"_","_","l","o","o","k","u","p","S","e","t","t","e","r","_","_">>,
    <<"i","s","P","r","o","t","o","t","y","p","e","O","f">>,
    <<"p","r","o","p","e","r","t","y","I","s","E","n","u","m","e","r","a","b","l","e">>,
    <<"t","o","S","t","r","i","n","g">>,
    <<"v","a","l","u","e","O","f">>,
    <<"_","_","p","r","o","t","o","_","_">>,
    <<"t","o","L","o","c","a","l","e","S","t","r","i","n","g">> }

HasOwn(props, key) == \E i \in 1..Len(props) : props[i].key = key

OwnIndex(props, key) == CHOOSE i \in 1..Len(props) : props[i].key = key

\* One turn of the forEach callback (lines 64-70).
\*   !grouped[baseName]  is true only when the read gives undefined, that is
\*   when the key is neither an own property nor inherited; an inherited value
\*   is truthy and has no push, and grouped[baseName].push(model) throws.
GroupPush(g, model) ==
  LET baseName == getBaseModelName(model.model_id)
  IN  IF g.threw THEN g
      ELSE IF HasOwn(g.props, baseName)
        THEN [g EXCEPT !.props[OwnIndex(g.props, baseName)].models = Append(@, model)]
      ELSE IF baseName \in ObjectPrototypeKeys
        THEN [g EXCEPT !.threw = TRUE]
      ELSE [g EXCEPT !.props = Append(@, [key |-> baseName, models |-> <<model>>])]

RECURSIVE GroupFold(_, _)
GroupFold(g, models) ==
  IF Len(models) = 0 THEN g
  ELSE GroupFold(GroupPush(g, models[1]), Tail(models))

\* [threw |-> the call ended in a TypeError, props |-> the object built]
groupModelsByBaseName(models) ==
  GroupFold([threw |-> FALSE, props |-> <<>>], models)

(* Object.entries lists the own properties whose key is an array index      *)
(* (a canonical numeric string below 2^32 - 1) first, in ascending numeric  *)
(* order, and then the other keys in the order of their creation.           *)

Digits == <<"0", "1", "2", "3", "4", "5", "6", "7", "8", "9">>

IsDigit(c) == \E i \in 1..Len(Digits) : Digits[i] = c

\* 2^32 - 1, the first number that is not an array index
ArrayIndexLimit == <<"4","2","9","4","9","6","7","2","9","5">>

\* a < b for canonical numeric strings
NumericLess(a, b) ==
  \/ Len(a) < Len(b)
  \/ Len(a) = Len(b) /\ StringLess(a, b)

IsArrayIndex(key) ==
  /\ Len(key) > 0
  /\ \A i \in 1..Len(key) : IsDigit(key[i])
  /\ Len(key) = 1 \/ key[1] # "0"
  /\ NumericLess(key, ArrayIndexLimit)

ObjectEntries(props) ==
  LET idx == SelectSeq(props, LAMBDA e : IsArrayIndex(e.key))
      str == SelectSeq(props, LAMBDA e : ~IsArrayIndex(e.key))
      rank(e) == 1 + Cardinality({j \in 1..Len(idx) : NumericLess(idx[j].key, e.key)})
      ordered == [r \in 1..Len(idx) |->
                    idx[CHOOSE j \in 1..Len(idx) : rank(idx[j]) = r]]
  IN  ordered \o str

\* Object.entries(groupedResults).map(([baseName, models]) => ...): the keys
\* in the order the cards are rendered
EntryKeys(props) ==
  LET e == ObjectEntries(props) IN [i \in 1..Len(e) |-> e[i].key]

-----------------------------------------------------------------------------
(* Array.prototype.sort with a comparator.  The sort is stable (ECMAScript  *)
(* 2019): elements that compare equal keep their order.                     *)

CompareFn(option, a, b) ==
  IF option = "downloads-high" THEN b.downloads - a.downloads
  ELSE IF option = "downloads-low" THEN a.downloads - b.downloads
  ELSE a.distance - b.distance

\* where the last element goes among the sorted others: behind every element
\* that does not compare greater than it
\* (mutant) an unstable insertion: the element goes before its equals
InsertLastBeforeEquals(sorted, x, option) ==
  LET k == Cardinality({i \in 1..Len(sorted) : CompareFn(option, sorted[i], x) < 0})
  IN  SubSeq(sorted, 1, k) \o <<x>> \o SubSeq(sorted, k + 1, Len(sorted))

InsertLast(sorted, x, option) ==
  LET k == Cardinality({i \in 1..Len(sorted) : CompareFn(option, sorted[i], x) <= 0})
  IN  SubSeq(sorted, 1, k) \o <<x>> \o SubSeq(sorted, k + 1, Len(sorted))

RECURSIVE ArraySort(_, _)
ArraySort(list, option) ==
  IF Len(list) <= 1 THEN list
  ELSE InsertLast(ArraySort(SubSeq(list, 1, Len(list) - 1), option),
                  list[Len(list)], option)

\* Array.prototype.slice(0, n)
Slice(list, n) == SubSeq(list, 1, Min(n, Len(list)))

-----------------------------------------------------------------------------
(* getGroupStats (lines 76-91), called for every group of two or more items *)
(* when its card is rendered (lines 523, 664)                               *)

\* the value Math.min and Math.max give when an argument is undefined
NaN == "NaN"

\* Math.min(...models.map(m => m.downloads))
MathMin(models) ==
  IF \E i \in 1..Len(models) : ~HasDownloads(models[i]) THEN NaN
  ELSE LET ds == {models[i].downloads : i \in 1..Len(models)}
       IN  CHOOSE d \in ds : \A e \in ds : d <= e

\* Math.max(...models.map(m => m.downloads))
MathMax(models) ==
  IF \E i \in 1..Len(models) : ~HasDownloads(models[i]) THEN NaN
  ELSE LET ds == {models[i].downloads : i \in 1..Len(models)}
       IN  CHOOSE d \in ds : \A e \in ds : e <= d

\* (mutant) of the items at the least distance the last one is taken
getGroupStatsLastOfTies(models) ==
  LET least == CHOOSE r \in {models[i].distance : i \in 1..Len(models)} :
                 \A i \in 1..Len(models) : r <= models[i].distance
      last == CHOOSE i \in 1..Len(models) :
                /\ models[i].distance = least
                /\ \A j \in (i + 1)..Len(models) : models[j].distance # least
  IN  [minDownloads |-> MathMin(models),
       maxDownloads |-> MathMax(models),
       bestRelevance |-> models[last].distance,
       bestTags |-> IF HasTags(models[last]) THEN models[last].tags ELSE <<>>]

\* (mutant) the first item of the group is taken for the most relevant one
getGroupStatsFirstItem(models) ==
  [minDownloads |-> MathMin(models),
   maxDownloads |-> MathMax(models),
   bestRelevance |-> models[1].distance,
   bestTags |-> IF HasTags(models[1]) THEN models[1].tags ELSE <<>>]

getGroupStats(models) ==
  LET sortedByRelevance == ArraySort(models, "relevance")
      mostRelevantModel == sortedByRelevance[1]
  IN  [minDownloads |-> MathMin(models),
       maxDownloads |-> MathMax(models),
       bestRelevance |-> mostRelevantModel.distance,
       bestTags |-> IF HasTags(mostRelevantModel) THEN mostRelevantModel.tags ELSE <<>>]

-----------------------------------------------------------------------------
(* The effect "Apply filters and sorting" (lines 159-185) *)

\* (mutant) every selected tag is required
TagKeepsEvery(model, selected) ==
  /\ HasTags(model)
  /\ \A i \in 1..Len(selected) : Includes(model.tags, selected[i])

\* line 164: model.tags && selectedTags.some((tag) => model.tags.includes(tag))
TagKeeps(model, selected) ==
  /\ HasTags(model)
  /\ \E i \in 1..Len(selected) : Includes(model.tags, selected[i])

\* (mutant) only the tag selected last counts
TagStepLastOnly(list, selected) ==
  IF Len(selected) > 0
  THEN SelectSeq(list, LAMBDA m : HasTags(m) /\ Includes(m.tags, selected[Len(selected)]))
  ELSE list

\* lines 163-165
TagStep(list, selected) ==
  IF Len(selected) > 0
  THEN SelectSeq(list, LAMBDA m : TagKeeps(m, selected))
  ELSE list

\* (mutant) an item without downloads passes
RangeKeepsAbsent(model, range) ==
  \/ ~HasDownloads(model)
  \/ /\ model.downloads >= range[1]
     /\ model.downloads <= range[2]

\* (mutant) the high bound is excluded
RangeKeepsBelowHigh(model, range) ==
  /\ HasDownloads(model)
  /\ model.downloads >= range[1]
  /\ model.downloads < range[2]

\* line 168; a comparison with undefined is false
RangeKeeps(model, range) ==
  /\ HasDownloads(model)
  /\ model.downloads >= range[1]
  /\ model.downloads <= range[2]

RangeStep(list, range) == SelectSeq(list, LAMBDA m : RangeKeeps(m, range))

SortOptions == {"relevance", "downloads-high", "downloads-low"}

\* lines 171-177: any other value of sortOption sorts nothing
SortStep(list, option) ==
  IF option = "downloads-high" THEN ArraySort(list, "downloads-high")
  ELSE IF option = "downloads-low" THEN ArraySort(list, "downloads-low")
  ELSE IF option = "relevance" THEN ArraySort(list, "relevance")
  ELSE list

\* (mutant) nothing is cut off
LimitStepNone(list, limit) == list

\* (mutant) slice(0, limit + 1)
LimitStepOneMore(list, limit) == Slice(list, limit + 1)

\* line 180
LimitStep(list, limit) == Slice(list, limit)

\* the value of `filtered` at line 183
ApplyFilters(res, selected, range, option, limit) ==
  LimitStep(SortStep(RangeStep(TagStep(res, selected), range), option), limit)

\* (mutant) the sort is done on `results` itself
ResultsSortedInPlace(res, option) ==
  IF option \in {"downloads-high", "downloads-low", "relevance"}
  THEN ArraySort(res, option) ELSE res

\* `filtered` starts as the copy [...results], filter returns new arrays and
\* sort works on them: the array held by `results` is not written.
ResultsAfterPipeline(res, option) == res

-----------------------------------------------------------------------------
(* The effect "Extract all unique tags from results" (lines 134-156) *)

\* the Set `tags` after the forEach
FacetTagSet(res) ==
  { t \in UNION { {res[i].tags[j] : j \in 1..Len(res[i].tags)} :
                    i \in {k \in 1..Len(res) : HasTags(res[k])} } :
      filterTagForDisplay(t) }

\* (mutant) the tags in the order of their lower-case forms
SortedTagsIgnoringCase(set) ==
  LET before(u, t) ==
        \/ StringLess(toLowerCase(u), toLowerCase(t))
        \/ toLowerCase(u) = toLowerCase(t) /\ StringLess(u, t)
      rank(t) == 1 + Cardinality({u \in set : before(u, t)})
  IN  [r \in 1..Cardinality(set) |-> CHOOSE t \in set : rank(t) = r]

\* Array.from(tags).sort(): ascending in the code-unit order of strings
SortedTags(set) ==
  LET rank(t) == 1 + Cardinality({u \in set : StringLess(u, t)})
  IN  [r \in 1..Cardinality(set) |-> CHOOSE t \in set : rank(t) = r]

\* maxDownload after the forEach: it starts at 0 and rises to every greater
\* downloads value; undefined > maxDownload is false
FacetMaxDownload(res) ==
  LET ds == {0} \cup {res[i].downloads : i \in {k \in 1..Len(res) : HasDownloads(res[k])}}
  IN  CHOOSE d \in ds : \A e \in ds : e <= d

-----------------------------------------------------------------------------
(* Values *)

Item(id, tags, downloads, distance) ==
  [model_id |-> id, tags |-> tags, downloads |-> downloads,
   distance |-> distance, absent |-> {}]

\* all sequences over `set` of length at most n
RECURSIVE SeqsUpTo(_, _)
SeqsUpTo(set, n) ==
  IF n = 0 THEN { <<>> }
  ELSE LET shorter == SeqsUpTo(set, n - 1)
       IN  shorter \cup { Append(q, x) : q \in {r \in shorter : Len(r) = n - 1}, x \in set }

\* the value of error: null, or the message of the Error that was caught
NoError == "null"
ConfigError == "Backend URL is not configured in environment variables."
HttpError == "Server responded with <status>: <statusText>"
FetchError == "<err.message>"
UnknownError == "An unknown error occurred"

InitialMaxDownloads == 1000000
DefaultResultsLimit == 40
MinTopK == 100

\* the <SelectItem> values of the results-limit select (lines 404-408)
LimitOptions == {10, 20, 40, 60, 100}

TagText == <<"t","e","x","t">>
TagCode == <<"c","o","d","e">>

-----------------------------------------------------------------------------
(* The inputs the checks range over *)

MaxQueryLen == 1
Queries == SeqsUpTo({" ", "q"}, MaxQueryLen)

MaxItems == 2
FillerLen == 14

\* the items of the short lists differ in everything the pipeline reads
PipeItems ==
  { Item(<<"m">>, t, d, r) : t \in { <<TagText>>, <<TagCode>> }, d \in 0..1, r \in 0..1 }

\* the last item of a long list: also without tags, and with both
ExtraItems ==
  { Item(<<"m">>, t, d, r) :
      t \in { <<>>, <<TagText>>, <<TagCode>>, <<TagText, TagCode>> },
      d \in 0..1, r \in 0..1 }

\* "x", "xx", "xxx", ...: one identifier for each position
FillerId(i) == [j \in 1..i |-> "x"]

\* a long list: FillerLen items that all carry the tag "text", every third one
\* "code" as well, with downloads 0..2 and distances 0..2 that repeat
Filler ==
  [i \in 1..FillerLen |->
     Item(FillerId(i),
          IF i % 3 = 0 THEN <<TagText, TagCode>> ELSE <<TagText>>,
          i % 3,
          (i \div 2) % 3)]

PipeBodies ==
  SeqsUpTo(PipeItems, MaxItems) \cup { Filler \o <<x>> : x \in ExtraItems }

MaxIdLen == 5
MaxGroupIdLen == 2
MaxGroupItems == 2

IdItem(id) == Item(id, <<>>, 0, 0)

\* identifiers of every shape: with and without namespace, hyphen, digits
Ids == SeqsUpTo({"a", "0", "/", "-"}, MaxIdLen) \ { <<>> }

GroupIds ==
  (SeqsUpTo({"a", "1", "-"}, MaxGroupIdLen) \ { <<>> })
    \cup { <<"c","o","n","s","t","r","u","c","t","o","r">> }

GroupBodies ==
  { <<IdItem(id)>> : id \in Ids }
    \cup SeqsUpTo({ IdItem(id) : id \in GroupIds }, MaxGroupItems)

MaxTagLen == 4
MaxFacetItems == 2

\* String.prototype.toUpperCase, one character at a time
UpperChar(c) ==
  IF \E i \in 1..Len(LowerCase) : LowerCase[i] = c
  THEN UpperCase[CHOOSE i \in 1..Len(LowerCase) : LowerCase[i] = c]
  ELSE c

toUpperCase(s) == [i \in 1..Len(s) |-> UpperChar(s[i])]

Capitalized(s) == [i \in 1..Len(s) |-> IF i = 1 THEN UpperChar(s[i]) ELSE s[i]]

\* every excluded word and prefix: as it is, in capitals, capitalized, cut by
\* a character, with a character more, and behind another character
Variants(s) ==
  { s, toUpperCase(s), Capitalized(s), SubSeq(s, 1, Len(s) - 1),
    s \o <<"1">>, toUpperCase(s) \o <<"1">>, <<"x">> \o s \o <<"1">> }

\* tags of every kind: all short ones, and the neighbours of the excluded ones
FacetTags ==
  SeqsUpTo({"a", "T", ":"}, MaxTagLen)
    \cup UNION { Variants(w) : w \in COMMON_EXCLUDED_TAGS }
    \cup UNION { Variants(EXCLUDED_TAG_PREFIXES[p]) : p \in 1..Len(EXCLUDED_TAG_PREFIXES) }

TagNlp == <<"n","l","p">>
TagArxiv == <<"a","r","x","i","v",":","1">>

\* tag lists with a tag twice, tags in descending order, capitals before
\* small letters, and tags that are not displayed
FacetTagLists ==
  { <<>>, <<TagText>>, <<TagText, TagCode>>, <<TagCode, TagText, TagText>>,
    <<Capitalized(TagText), TagNlp>>, <<TagCode, TagArxiv, toUpperCase(TagCode)>> }

FacetItems == { Item(<<"m">>, t, d, 0) : t \in FacetTagLists, d \in 0..2 }

FacetBodies ==
  { <<Item(<<"m">>, <<t>>, 0, 0)>> : t \in FacetTags }
    \cup (SeqsUpTo(FacetItems, MaxFacetItems) \ { <<>> })

MaxMalformedItems == 2

\* an item of a response that left out the fields `fields`
ItemWithout(fields, tags, downloads, distance) ==
  [model_id |-> <<"m">>,
   tags |-> IF "tags" \in fields THEN <<>> ELSE tags,
   downloads |-> IF "downloads" \in fields THEN 0 ELSE downloads,
   distance |-> distance,
   absent |-> fields]

\* items with and without tags, with and without downloads
MalformedItems ==
  { ItemWithout(f, t, d, r) :
      f \in SUBSET {"tags", "downloads"}, t \in { <<TagText>>, <<TagCode>> },
      d \in 0..1, r \in 0..1 }

MalformedBodies == SeqsUpTo(MalformedItems, MaxMalformedItems) \ { <<>> }

MaxSearchItems == 2

SearchItems ==
  { Item(<<"o","/","m","-","1">>, <<TagText>>, 1, 0),
    Item(<<"o","/","m","-","2">>, <<TagCode, <<"n","l","p">> >>, 0, 1) }

SearchBodies == SeqsUpTo(SearchItems, MaxSearchItems)

-----------------------------------------------------------------------------
(* The state after the first render (lines 118-131); the two effects have   *)
(* run once on the empty list and left it as it is.                         *)

Mounted ==
  /\ query = <<>>
  /\ results = <<>>
  /\ filteredResults = <<>>
  /\ groupedResults = <<>>
  /\ loading = FALSE
  /\ error = NoError
  /\ availableTags = <<>>
  /\ selectedTags = <<>>
  /\ downloadRange = <<0, InitialMaxDownloads>>
  /\ maxDownloads = InitialMaxDownloads
  /\ sortOption = "relevance"
  /\ resultsLimit = DefaultResultsLimit
  /\ inflight = <<>>
  /\ pending = {}
  /\ crashed = FALSE

-----------------------------------------------------------------------------
(* Effects.  After a render React runs, in the order of their declaration,  *)
(* the effects of which a dependency changed; both read the values of that  *)
(* render and their set-state calls take effect together in the next one.   *)
(* RunEffects is that flush together with the render that follows it.       *)

RunEffects ==
  /\ ~crashed
  /\ pending # {}
  /\ LET runFacet == "facet" \in pending /\ Len(results) > 0
         runPipe == "pipe" \in pending
         maxDownload == FacetMaxDownload(results)
         filtered == ApplyFilters(results, selectedTags, downloadRange,
                                  sortOption, resultsLimit)
         grouped == groupModelsByBaseName(filtered)
         threw == runPipe /\ grouped.threw
     IN  /\ IF runFacet
            THEN /\ availableTags' = SortedTags(FacetTagSet(results))
                 /\ maxDownloads' = maxDownload
                 /\ downloadRange' = <<0, maxDownload>>
            ELSE UNCHANGED <<availableTags, maxDownloads, downloadRange>>
         /\ IF runPipe
            THEN /\ results' = ResultsAfterPipeline(results, sortOption)
                 /\ filteredResults' = filtered
                 /\ groupedResults' = IF threw THEN groupedResults ELSE grouped.props
            ELSE UNCHANGED <<results, filteredResults, groupedResults>>
         /\ crashed' = threw
         \* setDownloadRange was given a new array: the pipeline effect runs again
         /\ pending' = IF runFacet /\ ~threw THEN {"pipe"} ELSE {}
  /\ UNCHANGED <<query, loading, error, selectedTags, sortOption, resultsLimit,
                 backendUrl, inflight>>

-----------------------------------------------------------------------------
(* Handlers.  An event is handled when the effects of the last render have  *)
(* run.  The filter controls are rendered only while results.length > 0     *)
(* (lines 309-474).                                                         *)

Idle == ~crashed /\ pending = {}

FiltersShown == Idle /\ Len(results) > 0

\* line 227
Toggled(prev, tag) ==
  IF Includes(prev, tag)
  THEN SelectSeq(prev, LAMBDA t : t # tag)
  ELSE Append(prev, tag)

\* (mutant) the offered tags are narrowed to the selection
toggleTagFilterNarrowingFacets ==
  /\ FiltersShown
  /\ \E i \in 1..(Len(availableTags) + Len(selectedTags)) :
       LET tag == IF i <= Len(availableTags) THEN availableTags[i]
                  ELSE selectedTags[i - Len(availableTags)]
       IN  selectedTags' = Toggled(selectedTags, tag)
  /\ availableTags' = selectedTags'
  /\ pending' = {"pipe"}
  /\ UNCHANGED <<query, results, filteredResults, groupedResults, loading, error,
                 downloadRange, maxDownloads, sortOption,
                 resultsLimit, backendUrl, inflight, crashed>>

\* a checkbox of the tag list (line 425) or the X of a chip (line 465)
toggleTagFilter ==
  /\ FiltersShown
  /\ \E i \in 1..(Len(availableTags) + Len(selectedTags)) :
       LET tag == IF i <= Len(availableTags) THEN availableTags[i]
                  ELSE selectedTags[i - Len(availableTags)]
       IN  selectedTags' = Toggled(selectedTags, tag)
  /\ pending' = {"pipe"}
  /\ UNCHANGED <<query, results, filteredResults, groupedResults, loading, error,
                 availableTags, downloadRange, maxDownloads, sortOption,
                 resultsLimit, backendUrl, inflight, crashed>>

\* (mutant) the result limit is left as the user set it
clearFiltersKeepingLimit ==
  /\ FiltersShown
  /\ selectedTags' = <<>>
  /\ downloadRange' = <<0, maxDownloads>>
  /\ sortOption' = "relevance"
  /\ pending' = {"pipe"}
  /\ UNCHANGED <<query, results, filteredResults, groupedResults, loading, error,
                 availableTags, maxDownloads, resultsLimit, backendUrl, inflight,
                 crashed>>

\* lines 230-235
clearFilters ==
  /\ FiltersShown
  /\ selectedTags' = <<>>
  /\ downloadRange' = <<0, maxDownloads>>
  /\ sortOption' = "relevance"
  /\ resultsLimit' = DefaultResultsLimit
  /\ pending' = {"pipe"}
  /\ UNCHANGED <<query, results, filteredResults, groupedResults, loading, error,
                 availableTags, maxDownloads, backendUrl, inflight, crashed>>

\* <Select value={sortOption} onValueChange={setSortOption}> (lines 341-349)
setSortOption ==
  /\ FiltersShown
  /\ \E v \in SortOptions \ {sortOption} : sortOption' = v
  /\ pending' = {"pipe"}
  /\ UNCHANGED <<query, results, filteredResults, groupedResults, loading, error,
                 availableTags, selectedTags, downloadRange, maxDownloads,
                 resultsLimit, backendUrl, inflight, crashed>>

\* lines 392-398
setResultsLimit ==
  /\ FiltersShown
  /\ \E v \in LimitOptions \ {resultsLimit} : resultsLimit' = v
  /\ pending' = {"pipe"}
  /\ UNCHANGED <<query, results, filteredResults, groupedResults, loading, error,
                 availableTags, selectedTags, downloadRange, maxDownloads,
                 sortOption, backendUrl, inflight, crashed>>

\* the positions of a thumb of <Slider max={maxDownloads} step={...}>: the
\* multiples of the step from 0, and max itself
SliderStops ==
  LET step == Max(1, maxDownloads \div 100)
  IN  {v \in 0..maxDownloads : v % step = 0} \cup {maxDownloads}

\* lines 376-383
setDownloadRange ==
  /\ FiltersShown
  /\ \E lo \in SliderStops, hi \in SliderStops :
       /\ lo <= hi
       /\ <<lo, hi>> # downloadRange
       /\ downloadRange' = <<lo, hi>>
  /\ pending' = {"pipe"}
  /\ UNCHANGED <<query, results, filteredResults, groupedResults, loading, error,
                 availableTags, selectedTags, maxDownloads, sortOption,
                 resultsLimit, backendUrl, inflight, crashed>>

\* onChange of the search box (line 280)
setQuery ==
  /\ Idle
  /\ \E q \in Queries : q # query /\ query' = q
  /\ UNCHANGED <<results, filteredResults, groupedResults, loading, error,
                 availableTags, selectedTags, downloadRange, maxDownloads,
                 sortOption, resultsLimit, backendUrl, inflight, pending, crashed>>

\* String.prototype.trim leaves nothing
IsBlank(q) == \A i \in 1..Len(q) : q[i] = " "

\* (mutant) the request is sent without a backend URL
handleSearchWithoutUrl ==
  /\ Idle
  /\ ~loading
  /\ IF IsBlank(query)
     THEN UNCHANGED vars
     ELSE /\ selectedTags' = <<>>
          /\ pending' = {"pipe"}
          /\ loading' = TRUE
          /\ error' = NoError
          /\ inflight' = Append(inflight,
                                [query |-> query,
                                 top_k |-> Max(MinTopK, resultsLimit)])
          /\ UNCHANGED <<query, results, filteredResults, groupedResults,
                         availableTags, downloadRange, maxDownloads, sortOption,
                         resultsLimit, backendUrl, crashed>>

\* (mutant) the submit button is not disabled while loading
handleSearchWhileLoading ==
  /\ Idle
  /\ IF IsBlank(query)
     THEN UNCHANGED vars
     ELSE /\ selectedTags' = <<>>
          /\ pending' = {"pipe"}
          /\ IF backendUrl
             THEN /\ loading' = TRUE
                  /\ error' = NoError
                  /\ inflight' = Append(inflight,
                                        [query |-> query,
                                         top_k |-> Max(MinTopK, resultsLimit)])
             ELSE /\ loading' = FALSE
                  /\ error' = ConfigError
                  /\ UNCHANGED inflight
          /\ UNCHANGED <<query, results, filteredResults, groupedResults,
                         availableTags, downloadRange, maxDownloads, sortOption,
                         resultsLimit, backendUrl, crashed>>

\* handleSearch up to the await (lines 187-210).  The submit button is
\* disabled while loading (line 286), and a form whose default button is
\* disabled is not submitted by the Enter key either.
handleSearch ==
  /\ Idle
  /\ ~loading
  /\ IF IsBlank(query)
     THEN UNCHANGED vars
     ELSE /\ selectedTags' = <<>>
          /\ pending' = {"pipe"}
          /\ IF backendUrl
             THEN /\ loading' = TRUE
                  /\ error' = NoError
                  /\ inflight' = Append(inflight,
                                        [query |-> query,
                                         top_k |-> Max(MinTopK, resultsLimit)])
             \* the throw of line 199 is caught in the same turn: the catch sets
             \* the message and the finally block ends the loading state
             ELSE /\ loading' = FALSE
                  /\ error' = ConfigError
                  /\ UNCHANGED inflight
          /\ UNCHANGED <<query, results, filteredResults, groupedResults,
                         availableTags, downloadRange, maxDownloads, sortOption,
                         resultsLimit, backendUrl, crashed>>

\* what the await of fetch and of response.json() can bring
Outcomes == {"results", "no results field", "not ok", "rejected", "rejected, no Error"}

\* the parsed body of a 2xx response: an object with the field results, or
\* one without it
Body(list) == [results |-> list, absent |-> {}]

NoResultsBody == [results |-> <<>>, absent |-> {"results"}]

\* (mutant) the list is stored back to front
StoredResultsReversed(data) ==
  IF "results" \notin data.absent
  THEN [i \in 1..Len(data.results) |-> data.results[Len(data.results) + 1 - i]]
  ELSE <<>>

\* line 217: data.results || []
StoredResults(data) ==
  IF "results" \notin data.absent THEN data.results ELSE <<>>

\* (mutant) the catch block stores no message
CaughtMessageNone(outcome) == NoError

\* line 219: the message of the Error thrown at line 213 or by fetch or by
\* response.json(), or the fixed text when what was thrown is not an Error
CaughtMessage(outcome) ==
  IF outcome = "not ok" THEN HttpError
  ELSE IF outcome = "rejected" THEN FetchError
  ELSE UnknownError

\* (mutant) the loading state is ended only after a response that was stored
searchResponseNoFinally ==
  /\ Idle
  /\ \E i \in 1..Len(inflight), outcome \in Outcomes :
       /\ inflight' = SubSeq(inflight, 1, i - 1) \o SubSeq(inflight, i + 1, Len(inflight))
       /\ IF outcome = "results"
          THEN \E body \in SearchBodies :
                 /\ results' = StoredResults(Body(body))
                 /\ pending' = {"facet", "pipe"}
                 /\ loading' = FALSE
                 /\ UNCHANGED error
          ELSE IF outcome = "no results field"
          THEN /\ results' = StoredResults(NoResultsBody)
               /\ pending' = {"facet", "pipe"}
               /\ loading' = FALSE
               /\ UNCHANGED error
          ELSE /\ error' = CaughtMessage(outcome)
               /\ UNCHANGED <<results, pending, loading>>
  /\ UNCHANGED <<query, filteredResults, groupedResults, availableTags,
                 selectedTags, downloadRange, maxDownloads, sortOption,
                 resultsLimit, backendUrl, crashed>>

\* handleSearch from the await on (lines 212-223)
searchResponse ==
  /\ Idle
  /\ \E i \in 1..Len(inflight), outcome \in Outcomes :
       /\ inflight' = SubSeq(inflight, 1, i - 1) \o SubSeq(inflight, i + 1, Len(inflight))
       /\ loading' = FALSE
       /\ IF outcome = "results"
          THEN \E body \in SearchBodies :
                 /\ results' = StoredResults(Body(body))
                 /\ pending' = {"facet", "pipe"}
                 /\ UNCHANGED error
          ELSE IF outcome = "no results field"
          THEN /\ results' = StoredResults(NoResultsBody)
               /\ pending' = {"facet", "pipe"}
               /\ UNCHANGED error
          ELSE /\ error' = CaughtMessage(outcome)
               /\ UNCHANGED <<results, pending>>
  /\ UNCHANGED <<query, filteredResults, groupedResults, availableTags,
                 selectedTags, downloadRange, maxDownloads, sortOption,
                 resultsLimit, backendUrl, crashed>>

-----------------------------------------------------------------------------
(* What the render shows of the result list (both tabs, lines 484-509 and   *)
(* 628-650): skeleton cards while loading, the cards of the groups when     *)
(* there are filtered results.                                              *)

\* (mutant) the cards are rendered while loading as well
ListRenderedWhileLoading == Len(results) > 0 /\ Len(filteredResults) > 0

ListRendered == Len(results) > 0 /\ ~loading /\ Len(filteredResults) > 0

-----------------------------------------------------------------------------
(* The page with its search backend *)

Init ==
  /\ Mounted
  /\ backendUrl \in BOOLEAN

Next ==
  \/ setQuery
  \/ handleSearch
  \/ searchResponse
  \/ RunEffects
  \/ toggleTagFilter
  \/ clearFilters
  \/ setSortOption
  \/ setResultsLimit
  \/ setDownloadRange

Spec == Init /\ [][Next]_vars

\* A step that runs the effects of the last render, told by what it does to
\* the effects waiting: RunEffects is the only action taken while some effect
\* waits, it is enabled whenever one waits in a mounted tree, and it leaves
\* no effect (or the pipeline effect only) waiting.
EffectsFlushed ==
  /\ ~crashed
  /\ pending # {}
  /\ pending' \in {{}, {"pipe"}}
  /\ pending' # pending

\* The page with a backend that answers or fails every request, and React
\* that runs the effects of every render
SpecLive == Spec /\ WF_pending(EffectsFlushed) /\ SF_vars(searchResponse)

-----------------------------------------------------------------------------
(* The page from the render that follows its first search response on: the  *)
(* response brought `body`, no effect has seen it yet.                      *)

AfterFirstResponse(body) ==
  /\ query = <<"q">>
  /\ results = body
  /\ filteredResults = <<>>
  /\ groupedResults = <<>>
  /\ loading = FALSE
  /\ error = NoError
  /\ availableTags = <<>>
  /\ selectedTags = <<>>
  /\ downloadRange = <<0, InitialMaxDownloads>>
  /\ maxDownloads = InitialMaxDownloads
  /\ sortOption = "relevance"
  /\ resultsLimit = DefaultResultsLimit
  /\ backendUrl = TRUE
  /\ inflight = <<>>
  /\ pending = {"facet", "pipe"}
  /\ crashed = FALSE

\* The filter pipeline on every short result list and on long ones
InitPipe == \E body \in PipeBodies : AfterFirstResponse(body)

NextPipe ==
  \/ RunEffects
  \/ toggleTagFilter
  \/ clearFilters
  \/ setSortOption
  \/ setResultsLimit
  \/ setDownloadRange

SpecPipe == InitPipe /\ [][NextPipe]_vars

\* Facet extraction on result lists whose tags are arbitrary strings
InitFacet == \E body \in FacetBodies : AfterFirstResponse(body)

NextFacet == RunEffects

SpecFacet == InitFacet /\ [][NextFacet]_vars

\* The effects and the tag and sort controls on result lists whose items
\* lack fields
InitMalformed == \E body \in MalformedBodies : AfterFirstResponse(body)

NextMalformed ==
  \/ RunEffects
  \/ toggleTagFilter
  \/ setSortOption

SpecMalformed == InitMalformed /\ [][NextMalformed]_vars

\* Grouping on result lists whose identifiers are arbitrary strings
InitGroup == \E body \in GroupBodies : AfterFirstResponse(body)

NextGroup == RunEffects

SpecGroup == InitGroup /\ [][NextGroup]_vars

-----------------------------------------------------------------------------
(* What the displayed list should be, said without the steps of the effect: *)
(* which positions of the raw list qualify, and the rank of each of them.   *)

ToSet(seq) == {seq[i] : i \in 1..Len(seq)}

\* the items at the positions `keep` of `list`, in the order of the list
Kept(list, keep) ==
  [r \in 1..Cardinality(keep) |->
     list[CHOOSE i \in keep : Cardinality({j \in keep : j <= i}) = r]]

MatchesTags(m, selected) ==
  selected = <<>> \/ ToSet(m.tags) \cap ToSet(selected) # {}

InRange(m) == m.downloads \in downloadRange[1]..downloadRange[2]

TagQualifying(selected) ==
  {i \in 1..Len(results) : MatchesTags(results[i], selected)}

Qualifying ==
  {i \in TagQualifying(selectedTags) : InRange(results[i])}

\* the items that pass both filters, in raw order
PostFilterList == Kept(results, Qualifying)

SortKey(option, m) ==
  IF option = "downloads-high" THEN 0 - m.downloads
  ELSE IF option = "downloads-low" THEN m.downloads
  ELSE m.distance

\* position i of the raw list comes before position j in the sorted order
ComesBefore(i, j) ==
  \/ SortKey(sortOption, results[i]) < SortKey(sortOption, results[j])
  \/ SortKey(sortOption, results[i]) = SortKey(sortOption, results[j]) /\ i < j

RankOf(i) == 1 + Cardinality({j \in Qualifying : ComesBefore(j, i)})

\* the qualifying items by ascending key, equal keys in raw order
StableOrder ==
  [r \in 1..Cardinality(Qualifying) |->
     results[CHOOSE i \in Qualifying : RankOf(i) = r]]

Truncated == Cardinality(Qualifying) > resultsLimit

-----------------------------------------------------------------------------
(* C1.  Once the effects have run, the displayed list is the first          *)
(* resultsLimit items of the raw list filtered by tags, then by download    *)
(* range, then sorted; it has min(resultsLimit, number of qualifying items) *)
(* items.                                                                   *)
C1_FilteredIsLimitedPrefix ==
  pending = {} =>
    /\ Len(filteredResults) = Min(resultsLimit, Cardinality(Qualifying))
    /\ filteredResults = SubSeq(StableOrder, 1, Len(filteredResults))

\* eleven items pass a tag filter and a narrowed range, ten are shown
C1_Witness ==
  /\ pending = {}
  /\ Truncated
  /\ Len(filteredResults) = resultsLimit
  /\ selectedTags # <<>>
  /\ downloadRange[1] > 0
  /\ sortOption = "downloads-high"

(* C2.  The tag step keeps an item exactly when no tag is selected or one   *)
(* of its tags is one of the selected tags: on the raw list the step gives  *)
(* those items in raw order, and an item inside the download range is       *)
(* displayed exactly when it matches, as long as the limit cuts nothing.    *)
C2_TagStepIsOr ==
  pending = {} =>
    /\ TagStep(results, selectedTags) = Kept(results, TagQualifying(selectedTags))
    /\ selectedTags = <<>> => TagStep(results, selectedTags) = results
    /\ ~Truncated =>
         \A i \in 1..Len(results) :
           InRange(results[i]) =>
             (Includes(filteredResults, results[i])
                <=> MatchesTags(results[i], selectedTags))

\* two tags are selected: an item with only one of them is displayed, an item
\* with neither is not
C2_Witness ==
  /\ pending = {}
  /\ Len(selectedTags) = 2
  /\ \E i \in 1..Len(results) :
       /\ Cardinality(ToSet(results[i].tags) \cap ToSet(selectedTags)) = 1
       /\ Includes(filteredResults, results[i])
  /\ \E i \in 1..Len(results) :
       /\ ToSet(results[i].tags) \cap ToSet(selectedTags) = {}
       /\ InRange(results[i])
       /\ ~Includes(filteredResults, results[i])

\* every item the pipeline would display with the single tag `tag` selected is
\* displayed now
DisplayedWith(tag) ==
  ToSet(ApplyFilters(results, <<tag>>, downloadRange, sortOption, resultsLimit))

(* C3 as claimed.  With the tags {A, B} selected the displayed items        *)
(* include every item displayed with {A} alone, whatever the download       *)
(* range, the sort mode and the result limit.                               *)
C3_WideningAnyLimit ==
  pending = {} =>
    \A i \in 1..Len(selectedTags) :
      DisplayedWith(selectedTags[i]) \subseteq ToSet(filteredResults)

(* C3 amended.  The same, provided the limit cuts nothing off the list      *)
(* selected by {A, B}.                                                      *)
C3_WideningWithinLimit ==
  pending = {} /\ ~Truncated =>
    \A i \in 1..Len(selectedTags) :
      DisplayedWith(selectedTags[i]) \subseteq ToSet(filteredResults)

\* selecting the second tag added an item to the display
C3_Witness ==
  /\ pending = {}
  /\ ~Truncated
  /\ Len(selectedTags) = 2
  /\ DisplayedWith(selectedTags[1]) # {}
  /\ DisplayedWith(selectedTags[1]) # ToSet(filteredResults)

(* C4.  The download-range step keeps an item exactly when its downloads    *)
(* lie between downloadRange[0] and downloadRange[1], both bounds included. *)
C4_RangeStepInclusive ==
  pending = {} =>
    /\ RangeStep(Kept(results, TagQualifying(selectedTags)), downloadRange)
         = PostFilterList
    /\ ~Truncated =>
         \A i \in TagQualifying(selectedTags) :
           Includes(filteredResults, results[i])
             <=> /\ downloadRange[1] <= results[i].downloads
                 /\ results[i].downloads <= downloadRange[2]

\* an item at each bound is displayed, an item below the low bound is not
C4_Witness ==
  /\ pending = {}
  /\ downloadRange[1] < downloadRange[2]
  /\ \E i \in 1..Len(results) :
       results[i].downloads = downloadRange[1] /\ Includes(filteredResults, results[i])
  /\ \E i \in 1..Len(results) :
       results[i].downloads = downloadRange[2] /\ Includes(filteredResults, results[i])
  /\ \E i \in 1..Len(results) :
       results[i].downloads < downloadRange[1] /\ ~Includes(filteredResults, results[i])

\* sort mode values the select never offers
OtherSortOptions == {"", "downloads", "Relevance", "distance"}

(* C5.  The sort step orders the filtered items by distance ascending       *)
(* (relevance), downloads descending (downloads-high) or downloads          *)
(* ascending (downloads-low), items with equal keys in raw order; any other *)
(* sort mode leaves the raw order.                                          *)
C5_SortStepStable ==
  pending = {} =>
    /\ SortStep(PostFilterList, sortOption) = StableOrder
    /\ \A r \in 1..(Len(filteredResults) - 1) :
         SortKey(sortOption, filteredResults[r])
           <= SortKey(sortOption, filteredResults[r + 1])
    /\ \A other \in OtherSortOptions :
         SortStep(PostFilterList, other) = PostFilterList

\* sorted by downloads, high to low: the raw order changed, and two different
\* items with the same downloads stand next to each other
C5_Witness ==
  /\ pending = {}
  /\ sortOption = "downloads-high"
  /\ ~Truncated
  /\ filteredResults # PostFilterList
  /\ \E r \in 1..(Len(filteredResults) - 1) :
       /\ filteredResults[r].downloads = filteredResults[r + 1].downloads
       /\ filteredResults[r] # filteredResults[r + 1]

-----------------------------------------------------------------------------
(* Grouping, said without the fold: the base names in the order of their    *)
(* first occurrence, and for each of them the items that have it.           *)

BaseAt(list, i) == getBaseModelName(list[i].model_id)

\* the positions at which a base name occurs for the first time
FirstOccurrences(list) ==
  {i \in 1..Len(list) : \A j \in 1..(i - 1) : BaseAt(list, j) # BaseAt(list, i)}

FirstOccurrenceKeys(list) ==
  LET first == Kept(list, FirstOccurrences(list))
  IN  [r \in 1..Len(first) |-> getBaseModelName(first[r].model_id)]

(* C7 as claimed.  For every list of items, whatever their identifiers,     *)
(* groupModelsByBaseName returns a partition: no two groups share a key,    *)
(* every group is non-empty, the group keyed k holds exactly the items      *)
(* whose base name is k, and every item is in a group.                      *)
C7_GroupingIsPartition ==
  pending = {} =>
    /\ ~crashed
    /\ \A g, h \in 1..Len(groupedResults) :
         groupedResults[g].key = groupedResults[h].key => g = h
    /\ \A g \in 1..Len(groupedResults) :
         /\ Len(groupedResults[g].models) > 0
         /\ groupedResults[g].models =
              Kept(filteredResults,
                   {i \in 1..Len(filteredResults) :
                      BaseAt(filteredResults, i) = groupedResults[g].key})
    /\ \A i \in 1..Len(filteredResults) :
         \E g \in 1..Len(groupedResults) :
           groupedResults[g].key = BaseAt(filteredResults, i)

(* C8 as claimed.  The groups are rendered (Object.entries) in the order in *)
(* which their base names first occur in the list, digit-only base names    *)
(* included.                                                                *)
C8_EntriesInFirstOccurrenceOrder ==
  pending = {} /\ ~crashed =>
    EntryKeys(groupedResults) = FirstOccurrenceKeys(filteredResults)

Positions(id, c) == {i \in 1..Len(id) : id[i] = c}

First(set) == CHOOSE i \in set : \A j \in set : i <= j

\* 'ns/name' with a hyphen in the name: everything before the first hyphen of
\* the name.  A bare identifier with a hyphen: everything before its first
\* hyphen.  'ns/name' without a hyphen in the name: the identifier.
HasC9Shape(id) ==
  \/ Positions(id, "/") = {} /\ Positions(id, "-") # {}
  \/ Cardinality(Positions(id, "/")) = 1

C9Expected(id) ==
  IF Positions(id, "/") = {}
  THEN SubSeq(id, 1, First(Positions(id, "-")) - 1)
  ELSE LET slash == First(Positions(id, "/"))
           after == {i \in Positions(id, "-") : i > slash}
       IN  IF after = {} THEN id ELSE SubSeq(id, 1, First(after) - 1)

(* C9.  getBaseModelName('ns/name') is 'ns/' and the part of the name       *)
(* before its first hyphen, that of a bare identifier with a hyphen is the  *)
(* part before the first hyphen, and a hyphen in the namespace cuts         *)
(* nothing; the item is grouped under that key.                             *)
C9_BaseNameBeforeFirstHyphen ==
  \A i \in 1..Len(results) :
    HasC9Shape(results[i].model_id) =>
      /\ getBaseModelName(results[i].model_id) = C9Expected(results[i].model_id)
      /\ pending = {} /\ ~crashed =>
           \E g \in 1..Len(groupedResults) :
             /\ groupedResults[g].key = C9Expected(results[i].model_id)
             /\ Includes(groupedResults[g].models, results[i])

\* an identifier with a hyphen in the namespace and one in the name is grouped
\* under the identifier cut before the second hyphen
C9_Witness ==
  /\ pending = {}
  /\ Len(results) = 1
  /\ Cardinality(Positions(results[1].model_id, "/")) = 1
  /\ \E h \in Positions(results[1].model_id, "-") :
       h < First(Positions(results[1].model_id, "/"))
  /\ \E h \in Positions(results[1].model_id, "-") :
       /\ h > First(Positions(results[1].model_id, "/"))
       /\ Len(groupedResults) = 1
       /\ groupedResults[1].key = SubSeq(results[1].model_id, 1, h - 1)

(* C10 as claimed.  An identifier without a hyphen is its own base name,    *)
(* however many '/' it contains, and the item is grouped under it.          *)
C10_NoHyphenUnchanged ==
  pending = {} /\ ~crashed =>
    \A i \in 1..Len(results) :
      Positions(results[i].model_id, "-") = {} =>
        /\ getBaseModelName(results[i].model_id) = results[i].model_id
        /\ \E g \in 1..Len(groupedResults) :
             /\ groupedResults[g].key = results[i].model_id
             /\ Includes(groupedResults[g].models, results[i])

-----------------------------------------------------------------------------
(* Group statistics, said without the sort *)

Downloads(models) == {models[i].downloads : i \in 1..Len(models)}

Distances(models) == {models[i].distance : i \in 1..Len(models)}

(* C11.  For every displayed group, getGroupStats gives as minDownloads the *)
(* least downloads of the group's items, as maxDownloads the greatest, and  *)
(* as bestRelevance the least distance; so minDownloads <= maxDownloads and *)
(* bestRelevance is at most the distance of every member.                   *)
C11_GroupStatsAreExtremes ==
  pending = {} =>
    \A g \in 1..Len(groupedResults) :
      LET models == groupedResults[g].models
          stats == getGroupStats(models)
      IN  /\ stats.minDownloads \in Downloads(models)
          /\ \A d \in Downloads(models) : stats.minDownloads <= d
          /\ stats.maxDownloads \in Downloads(models)
          /\ \A d \in Downloads(models) : d <= stats.maxDownloads
          /\ stats.bestRelevance \in Distances(models)
          /\ \A r \in Distances(models) : stats.bestRelevance <= r
          /\ stats.minDownloads <= stats.maxDownloads

\* a displayed group of two items: the more relevant one comes second and has
\* the greater downloads
C11_Witness ==
  /\ pending = {}
  /\ \E g \in 1..Len(groupedResults) :
       LET models == groupedResults[g].models
       IN  /\ Len(models) = 2
           /\ models[2].distance < models[1].distance
           /\ models[1].downloads < models[2].downloads
           /\ getGroupStats(models).bestRelevance = models[2].distance
           /\ getGroupStats(models).minDownloads = models[1].downloads
           /\ getGroupStats(models).maxDownloads = models[2].downloads

-----------------------------------------------------------------------------
(* Facets, said without the loop of the effect *)

\* every tag of every raw item
RawTags ==
  UNION { ToSet(results[i].tags) : i \in {k \in 1..Len(results) : HasTags(results[k])} }

\* the facet effect has run on the current raw list
FacetsDerived == "facet" \notin pending /\ Len(results) > 0 /\ ~crashed

ExcludedPrefixes == ToSet(EXCLUDED_TAG_PREFIXES)

\* the tag is empty, has 3 characters or fewer, is 'transformers' in any
\* spelling of capitals, or begins in lower case with an excluded prefix
Undisplayed(t) ==
  \/ t = <<>>
  \/ Len(t) <= 3
  \/ toLowerCase(t) \in COMMON_EXCLUDED_TAGS
  \/ \E k \in 1..Len(t) : SubSeq(toLowerCase(t), 1, k) \in ExcludedPrefixes

(* C12.  filterTagForDisplay(t) is false for the empty tag, for a tag of 3  *)
(* characters or fewer, for 'transformers' in any capitals and for a tag    *)
(* that begins, in lower case, with 'arxiv:', 'base_model:', 'dataset:',    *)
(* 'diffusers:' or 'license:'; it is true for every other tag; the facet    *)
(* effect that calls it does not throw and offers exactly the tags for      *)
(* which it is true.                                                        *)
C12_DisplayableTags ==
  /\ ~crashed
  /\ \A t \in RawTags :
       /\ filterTagForDisplay(t) <=> ~Undisplayed(t)
       /\ FacetsDerived => (Includes(availableTags, t) <=> ~Undisplayed(t))

\* 'ARXIV:1' was left out of the facets, 'xarxiv:1' in another run was not
C12_Witness ==
  /\ FacetsDerived
  /\ Len(results) = 1
  /\ \E t \in RawTags :
       /\ Len(t) > Len(TagArxiv) - 1
       /\ \/ /\ t # toLowerCase(t)
             /\ toLowerCase(t) = TagArxiv
             /\ availableTags = <<>>
          \/ /\ SubSeq(t, 2, Len(TagArxiv)) = SubSeq(TagArxiv, 1, Len(TagArxiv) - 1)
             /\ availableTags = <<t>>

(* C13.  After the facet effect has run on a non-empty raw list,            *)
(* availableTags holds exactly the tags of the raw items for which          *)
(* filterTagForDisplay is true, each once, in ascending order of their code *)
(* units, and maxDownloads is the greatest downloads of the raw items.      *)
C13_FacetsOfRawList ==
  FacetsDerived =>
    /\ ToSet(availableTags) = {t \in RawTags : filterTagForDisplay(t)}
    /\ \A i, j \in 1..Len(availableTags) :
         i < j => /\ availableTags[i] # availableTags[j]
                  /\ StringLess(availableTags[i], availableTags[j])
    /\ \A i \in 1..Len(results) : results[i].downloads <= maxDownloads
    /\ \E i \in 1..Len(results) : results[i].downloads = maxDownloads

\* two items share a tag, one has a tag in capitals and one that is not
\* displayed: three tags are offered, and the greatest downloads is not that
\* of the last item
C13_Witness ==
  /\ FacetsDerived
  /\ Len(results) = 2
  /\ ToSet(results[1].tags) \cap ToSet(results[2].tags) # {}
  /\ Cardinality(RawTags) > Len(availableTags)
  /\ Len(availableTags) = 3
  /\ availableTags[1] # toLowerCase(availableTags[1])
  /\ results[2].downloads < maxDownloads

(* C14 as claimed.  The facets are recomputed when the raw list becomes     *)
(* empty: the effects that run after a response with an empty result list   *)
(* leave maxDownloads = 0 and availableTags empty, after an earlier search   *)
(* with results as well as from the initial state.                          *)
C14_EmptyResponseResetsFacets ==
  [][ (pending = {"facet", "pipe"} /\ Len(results) = 0) =>
        (maxDownloads' = 0 /\ availableTags' = <<>>)
    ]_vars

\* a filter action, or the run of the pipeline effect that follows one
FilterStep ==
  \/ toggleTagFilter
  \/ clearFilters
  \/ setSortOption
  \/ setResultsLimit
  \/ setDownloadRange
  \/ pending = {"pipe"} /\ RunEffects

\* the greatest downloads among the displayed items, 0 when there is none
DisplayedMaxDownload == FacetMaxDownload(filteredResults)

(* C15.  Toggling a tag, moving the download range, choosing a sort mode or *)
(* a result limit and clearing the filters, with the pipeline run each of   *)
(* them causes, leave availableTags and maxDownloads as they were: the      *)
(* facets stay those of the raw list however the display is narrowed (the   *)
(* filter controls are there only while the raw list is not empty).         *)
C15_FilterActionsKeepFacets ==
  [][ FilterStep =>
        /\ availableTags' = availableTags
        /\ maxDownloads' = maxDownloads
        /\ (pending' = {} /\ Len(results') > 0) =>
             /\ availableTags' = SortedTags(FacetTagSet(results'))
             /\ maxDownloads' = FacetMaxDownload(results')
    ]_vars

\* a tag is selected and the range is narrowed: a tag that no displayed item
\* carries is still offered, and maxDownloads is above every displayed item
C15_Witness ==
  /\ pending = {}
  /\ selectedTags # <<>>
  /\ downloadRange # <<0, maxDownloads>>
  /\ Len(filteredResults) > 0
  /\ \E i \in 1..Len(availableTags) :
       \A j \in 1..Len(filteredResults) :
         ~Includes(filteredResults[j].tags, availableTags[i])
  /\ DisplayedMaxDownload < maxDownloads

(* C16.  clearFilters sets selectedTags to [], downloadRange to             *)
(* [0, maxDownloads] with the maxDownloads of the moment, sortOption to     *)
(* 'relevance' and resultsLimit to 40, and leaves results, availableTags,   *)
(* maxDownloads, query and error as they were; the run of the pipeline      *)
(* effect that follows keeps all of them.                                   *)
C16_ClearFiltersRestoresDefaults ==
  [][ /\ clearFilters =>
           /\ selectedTags' = <<>>
           /\ downloadRange' = <<0, maxDownloads>>
           /\ sortOption' = "relevance"
           /\ resultsLimit' = 40
           /\ UNCHANGED <<results, availableTags, maxDownloads, query, error>>
      /\ (pending = {"pipe"} /\ RunEffects) =>
           UNCHANGED <<selectedTags, downloadRange, sortOption, resultsLimit,
                       results, availableTags, maxDownloads, query, error>>
    ]_vars

\* the filters were cleared after a failed search while a narrowed list was
\* displayed: the four parameters are at their defaults, the pipeline has not
\* run yet, the error message and the raw list are still there
C16_Witness ==
  /\ pending = {"pipe"}
  /\ ~loading
  /\ error # NoError
  /\ Len(results) = 2
  /\ Len(filteredResults) = 1
  /\ selectedTags = <<>>
  /\ downloadRange = <<0, maxDownloads>>
  /\ maxDownloads # InitialMaxDownloads
  /\ sortOption = "relevance"
  /\ resultsLimit = 40

\* handleSearch ran past the check of line 189
Submitted == handleSearch /\ ~IsBlank(query)

(* C17 as claimed.  Submitting a non-blank query resets the whole filter    *)
(* state: selectedTags = [], sortOption = 'relevance', resultsLimit = 40,   *)
(* whatever the user had chosen, and once the response is stored the        *)
(* download range is the full range of the new result list, empty or not.   *)
C17_SubmitResetsFilters ==
  [][ /\ Submitted =>
           /\ selectedTags' = <<>>
           /\ sortOption' = "relevance"
           /\ resultsLimit' = 40
      /\ (pending = {"facet", "pipe"} /\ RunEffects) =>
           downloadRange' = <<0, FacetMaxDownload(results)>>
    ]_vars

\* a response, or the failure of a request, was handled in this step
Responded == Len(inflight') < Len(inflight)

C19_OneRequestWhileLoading ==
  /\ Len(inflight) <= 1
  /\ inflight # <<>> => loading /\ ~ListRendered

\* a second search is in flight while the list of the first one is in the
\* state, with an item to display
C19_Witness ==
  /\ Len(inflight) = 1
  /\ loading
  /\ pending = {}
  /\ Len(results) > 0
  /\ Len(filteredResults) > 0

(* C20.  A failed search (a response that is not ok, a rejected fetch or    *)
(* body) sets error to one message: status and status text, the message of  *)
(* the exception, or 'An unknown error occurred'; it leaves the raw list,   *)
(* the displayed list and the facets as they were, ends the loading state   *)
(* and throws nothing.                                                      *)
C20_FailedSearchKeepsResults ==
  [][ (Responded /\ pending' # {"facet", "pipe"}) =>
        /\ error' \in {HttpError, FetchError, UnknownError}
        /\ ~loading'
        /\ ~crashed'
        /\ UNCHANGED <<results, filteredResults, groupedResults, availableTags,
                       maxDownloads, pending>>
    ]_vars

\* a search failed with a rejected fetch after an earlier one had brought two
\* items: they are still the raw list and still displayed
C20_Witness ==
  /\ inflight = <<>>
  /\ ~loading
  /\ error = FetchError
  /\ Len(results) = 2
  /\ Len(filteredResults) = 2
  /\ ListRendered

(* C21.  Without a backend URL a submission sends no request, sets error to *)
(* the configuration message, leaves the raw list as it was and ends with   *)
(* loading = false; no request is ever in flight.                           *)
C21_NoUrlNoRequest ==
  [][ (Submitted /\ ~backendUrl) =>
        /\ inflight' = inflight
        /\ inflight = <<>>
        /\ error' = "Backend URL is not configured in environment variables."
        /\ results' = results
        /\ ~loading'
    ]_vars

\* a query was submitted without a backend URL
C21_Witness ==
  /\ ~backendUrl
  /\ ~IsBlank(query)
  /\ error = ConfigError
  /\ ~loading
  /\ inflight = <<>>
  /\ pending = {"pipe"}

\* the bodies a 2xx response can have
ResponseData == { Body(b) : b \in SearchBodies } \cup { NoResultsBody }

\* this step stored the body `data` of a 2xx response
Stored(data) ==
  /\ Responded
  /\ pending' = {"facet", "pipe"}
  /\ results' = StoredResults(data)

C23_TopKAtLeastHundred ==
  [][ Len(inflight') > Len(inflight) =>
        LET request == inflight'[Len(inflight')]
        IN  /\ request.query = query
            /\ request.top_k >= 100
            /\ request.top_k >= resultsLimit
            /\ request.top_k \in {100, resultsLimit}
    ]_vars

\* a request has just been sent with top_k = 100 while the result limit
\* was 10
C23_Witness ==
  /\ Len(inflight) = 1
  /\ pending = {"pipe"}
  /\ inflight[1].top_k = 100
  /\ resultsLimit = 10
  /\ Len(results) > 0

(* C24 as claimed.  In every rendered state, the one right after a response *)
(* is stored and the one right after a filter parameter changes included,   *)
(* the displayed list and the groups are the pipeline applied to the        *)
(* current raw list and filter state, and the facets are those of the       *)
(* current raw list (stated here for a raw list that is not empty).         *)
C24_NoStaleRender ==
  ~crashed =>
    /\ filteredResults = ApplyFilters(results, selectedTags, downloadRange,
                                      sortOption, resultsLimit)
    /\ groupedResults = groupModelsByBaseName(filteredResults).props
    /\ Len(results) > 0 =>
         /\ availableTags = SortedTags(FacetTagSet(results))
         /\ maxDownloads = FacetMaxDownload(results)

\* the (group, position) pairs of the displayed groups
GroupedPositions ==
  UNION { { <<g, i>> : i \in 1..Len(groupedResults[g].models) } :
            g \in 1..Len(groupedResults) }

(* C25.  After every run of the pipeline effect the groups are those of the *)
(* truncated list: groupedResults = groupModelsByBaseName(filteredResults), *)
(* the groups hold as many items as filteredResults has, at most            *)
(* resultsLimit, and there are as many groups as the truncated list has     *)
(* base names.                                                              *)
C25_GroupsOfTruncatedList ==
  pending = {} /\ ~crashed =>
    /\ groupedResults = groupModelsByBaseName(filteredResults).props
    /\ Cardinality(GroupedPositions) = Len(filteredResults)
    /\ Cardinality(GroupedPositions) <= resultsLimit
    /\ Len(groupedResults) = Cardinality(FirstOccurrences(filteredResults))

\* the limit cut the list to ten items with ten base names: ten groups are
\* displayed, fewer than the qualifying items have base names
C25_Witness ==
  /\ pending = {}
  /\ Truncated
  /\ Len(filteredResults) = resultsLimit
  /\ Len(groupedResults) = resultsLimit
  /\ Cardinality(GroupedPositions) = resultsLimit
  /\ Len(groupedResults) < Cardinality(FirstOccurrences(StableOrder))

\* the first position of `models` at the least distance
MostRelevant(models) ==
  CHOOSE i \in 1..Len(models) :
    /\ \A j \in 1..Len(models) : models[i].distance <= models[j].distance
    /\ \A j \in 1..(i - 1) : models[j].distance # models[i].distance

(* C26.  The representative tags getGroupStats returns are the tags of the  *)
(* item at the least distance in the group, the empty list when that item   *)
(* has no tags field; of several items at the least distance the one that   *)
(* comes first in the group counts.                                         *)
C26_BestTagsOfFirstMostRelevant ==
  pending = {} /\ ~crashed =>
    \A g \in 1..Len(groupedResults) :
      LET models == groupedResults[g].models
          best == models[MostRelevant(models)]
      IN  /\ HasTags(best) => getGroupStats(models).bestTags = best.tags
          /\ ~HasTags(best) => getGroupStats(models).bestTags = <<>>

\* two items at the same distance, the first without tags, the second with
\* a tag: the representative tags are the empty list
C26_Witness ==
  /\ pending = {}
  /\ \E g \in 1..Len(groupedResults) :
       LET models == groupedResults[g].models
       IN  /\ Len(models) = 2
           /\ models[1].distance = models[2].distance
           /\ ~HasTags(models[1])
           /\ HasTags(models[2])
           /\ getGroupStats(models).bestTags = <<>>

(* C27.  Items without a tags field or without a downloads field make       *)
(* neither effect throw.  An item without tags offers no tag, passes the    *)
(* tag step exactly when no tag is selected and is displayed then if its    *)
(* downloads are in the range.  An item without downloads does not raise    *)
(* maxDownloads and is in no displayed group, so that the least and the     *)
(* greatest downloads of every group are those of items that have them.     *)
C27_AbsentFieldsTolerated ==
  /\ ~crashed
  /\ FacetsDerived =>
       /\ ToSet(availableTags) = {t \in RawTags : filterTagForDisplay(t)}
       /\ \A i \in 1..Len(results) :
            HasDownloads(results[i]) => results[i].downloads <= maxDownloads
       /\ \/ maxDownloads = 0
          \/ \E i \in 1..Len(results) :
               HasDownloads(results[i]) /\ results[i].downloads = maxDownloads
  /\ pending = {} =>
       /\ \A i \in 1..Len(results) :
            ~HasTags(results[i]) =>
              /\ Includes(TagStep(results, selectedTags), results[i])
                   <=> selectedTags = <<>>
              /\ Includes(filteredResults, results[i])
                   <=> /\ selectedTags = <<>>
                       /\ HasDownloads(results[i])
                       /\ results[i].downloads \in downloadRange[1]..downloadRange[2]
       /\ \A g \in 1..Len(groupedResults) :
            LET models == groupedResults[g].models
            IN  /\ \A i \in 1..Len(models) : HasDownloads(models[i])
                /\ getGroupStats(models).minDownloads \in Downloads(models)
                /\ getGroupStats(models).maxDownloads \in Downloads(models)

\* an item without tags and an item without downloads: the tag of the second
\* is offered, maxDownloads is that of the first, and the first is displayed
C27_Witness ==
  /\ pending = {}
  /\ Len(results) = 2
  /\ ~HasTags(results[1]) /\ HasDownloads(results[1])
  /\ HasTags(results[2]) /\ ~HasDownloads(results[2])
  /\ selectedTags = <<>>
  /\ availableTags = results[2].tags
  /\ maxDownloads = results[1].downloads
  /\ maxDownloads > 0
  /\ filteredResults = <<results[1]>>
  /\ Len(groupedResults) = 1

\* 0 <= downloadRange[0] <= downloadRange[1] <= maxDownloads
RangeWithinFacet ==
  /\ 0 <= downloadRange[1]
  /\ downloadRange[1] <= downloadRange[2]
  /\ downloadRange[2] <= maxDownloads

(* C30 as claimed.  Once the effects have run, 0 <= downloadRange[0] <=     *)
(* downloadRange[1] <= maxDownloads; and the effects that run right after a *)
(* response with a non-empty result list leave downloadRange =              *)
(* [0, maxDownloads], a range that removes no item of the raw list.         *)
C30_FullRangeAfterSearch ==
  [][ /\ pending = {} => RangeWithinFacet
      /\ pending' = {} => RangeWithinFacet'
      /\ (pending = {"facet", "pipe"} /\ Len(results) > 0) =>
           /\ downloadRange' = <<0, maxDownloads'>>
           /\ RangeStep(results', downloadRange') = results'
    ]_vars

(* C28.  Every submitted search completes when the backend answers or       *)
(* fails: loading is true exactly while a request is in flight, it becomes  *)
(* false again, and in the step in which it does either error is null and   *)
(* the raw list is the list of the response, or error is a message.         *)
C28_SearchCompletes ==
  /\ [](loading <=> inflight # <<>>)
  /\ [][ (loading /\ ~loading') =>
           \/ error' = NoError /\ \E data \in ResponseData : Stored(data)
           \/ error' # NoError /\ results' = results
       ]_vars
  /\ loading ~> ~loading

\* a search has completed: its two items are the raw list and are displayed
C28_Witness ==
  /\ ~loading
  /\ inflight = <<>>
  /\ error = NoError
  /\ pending = {}
  /\ Len(results) = 2
  /\ ListRendered

(* C29 as claimed.  In every state, whatever the order of submissions,      *)
(* responses and tag toggles, every selected tag is one of the offered      *)
(* tags, and no tag is selected twice.                                      *)
C29_SelectedTagsAreOffered ==
  pending = {} =>
    /\ \A i \in 1..Len(selectedTags) : Includes(availableTags, selectedTags[i])
    /\ \A i, j \in 1..Len(selectedTags) :
         selectedTags[i] = selectedTags[j] => i = j

====
